---------------------------- MODULE Spec2Model ----------------------------
(***************************************************************************)
(* SITREP inventory core: the rule engine (MotorReglasSITREP.evaluar_regla)*)
(* the matrix synchronizer (sincronizar_matriz_nave, fired by the Nave     *)
(* post_save signal) over the MatrizNaveRecurso table, and the inspection  *)
(* records (FichaRegistro).                                                *)
(*                                                                         *)
(* Numbers that are compared with a vessel attribute (a condition's        *)
(* 'valor', eslora, arqueo_bruto, capacidad_personas) are held in          *)
(* hundredths: Nave.eslora is DecimalField(decimal_places=2), so 10.50 is  *)
(* 1050 and the JSON integer 10 is 1000.  Quantities (cantidad) are plain  *)
(* integers.                                                               *)
(***************************************************************************)
EXTENDS Integers, Sequences, FiniteSets, TLC

VARIABLES
    ev_nave,      \* rule engine: the vessel handed to evaluar_regla
    ev_regla,     \* rule engine: the contract handed to evaluar_regla
    ev_res,       \* rule engine: what the call produced
    ev_pc,        \* rule engine: "llamar" before the call, "retorno" after
    naves,        \* table Nave: id -> committed row
    recursos,     \* table Recurso: id -> [naviera (0: NULL), regla_aplicacion]
    matriz,       \* table MatrizNaveRecurso: the committed rows
    run,          \* per worker: the request it is serving and its transaction
    h_humano,     \* history: the last direct edit of each row
    h_limpio,     \* history: per vessel, completed runs since the last change
    h_solape,     \* history: the run begun last began while another run of
                  \* the vessel, with other attribute values, was under way
    requerimientos, \* table Recurso: id -> the names in 'requerimientos'
    periodos,     \* table PeriodoRevision: id -> row, or SinPeriodo
    fichas        \* table FichaRegistro: the rows

(***************************************************************************)
(* JSON values of a rule contract.  t is the Python type the JSON decoder  *)
(* yields ("missing": the key is not in the dict), v the number (scaled    *)
(* for thresholds, 0/1 for bool), s the text of a string.                  *)
(***************************************************************************)
Escala == 100

J(t, v, s) == [t |-> t, v |-> v, s |-> s]
Missing == J("missing", 0, "")
Null == J("null", 0, "")
JInt(n) == J("int", n, "")
JFloat(h) == J("float", h, "")
JBool(b) == J("bool", IF b THEN 1 ELSE 0, "")
JStr(s) == J("str", 0, s)
JList == J("list", 0, "")

\* A condition of 'condiciones': a dict with any of its four keys absent.
Condicion(op, valor, cant, vis) ==
    [operador |-> op, valor |-> valor,
     resultado_cantidad |-> cant, resultado_visible |-> vis]

\* regla_aplicacion: JSON null, a dict (any key absent), or a JSON array of n
\* elements (an ill-typed contract; JSONField accepts any JSON).
ReglaNull ==
    [k |-> "null", n |-> 0, atributo |-> Missing, ct |-> "missing",
     condiciones |-> <<>>, fallback_cantidad |-> Missing,
     fallback_visible |-> Missing]
ReglaLista(n) == [ReglaNull EXCEPT !.k = "list", !.n = n]
ReglaDict(atributo, ct, conds, fc, fv) ==
    [k |-> "dict", n |-> 0, atributo |-> atributo, ct |-> ct,
     condiciones |-> conds, fallback_cantidad |-> fc, fallback_visible |-> fv]

\* The example contract of models.py.
ReglaReferencia ==
    ReglaDict(JStr("eslora"), "list",
              << Condicion(JStr("<="), JInt(10 * Escala), JInt(0), JBool(FALSE)),
                 Condicion(JStr("<="), JInt(50 * Escala), JInt(2), JBool(TRUE)),
                 Condicion(JStr(">"), JInt(50 * Escala), JInt(4), JBool(TRUE)) >>,
              JInt(0), JBool(FALSE))

(***************************************************************************)
(* Python truthiness of regla_json (`if not regla_json`).                  *)
(***************************************************************************)
EsFalsy(regla) ==
    \/ regla.k = "null"
    \/ regla.k = "list" /\ regla.n = 0
    \/ /\ regla.k = "dict"
       /\ regla.atributo.t = "missing"
       /\ regla.ct = "missing"
       /\ regla.fallback_cantidad.t = "missing"
       /\ regla.fallback_visible.t = "missing"

\* A result of evaluar_regla: a (cantidad, visible) pair, or an exception
\* that leaves the call.
Par(c, v) == [raised |-> FALSE, cantidad |-> c, visible |-> v]
Raised == [raised |-> TRUE, cantidad |-> 0, visible |-> FALSE]

\* dict.get(key, default) on a quantity / a visibility key.
GetCantidad(j) == IF j.t = "missing" THEN 0 ELSE j.v
GetVisible(j) == IF j.t = "missing" THEN FALSE ELSE j.v = 1

\* getattr(nave, atributo, None) for a string name: the three physical
\* attributes of Nave; any other name modelled here is no attribute.
NoneVal == [t |-> "none", v |-> 0]
GetAttr(nave, name) ==
    CASE name = "eslora" -> [t |-> "decimal", v |-> nave.eslora]
      [] name = "arqueo_bruto" -> [t |-> "int", v |-> nave.arqueo_bruto * Escala]
      [] name = "capacidad_personas" ->
             [t |-> "int", v |-> nave.capacidad_personas * Escala]
      [] OTHER -> NoneVal

\* int(x): truncation toward zero.
Truncar(h) ==
    IF h >= 0 THEN (h \div Escala) * Escala ELSE -(((-h) \div Escala) * Escala)

\* type(valor_regla)(valor_nave): ok = FALSE is the ValueError/TypeError the
\* loop catches.
Castear(valor_regla, valor_nave) ==
    CASE valor_regla.t = "int" -> [ok |-> TRUE, v |-> Truncar(valor_nave.v)]
      [] valor_regla.t = "float" -> [ok |-> TRUE, v |-> valor_nave.v]
      [] valor_regla.t = "bool" ->
             [ok |-> TRUE, v |-> IF valor_nave.v # 0 THEN 1 ELSE 0]
      [] OTHER -> [ok |-> FALSE, v |-> 0]

\* OPERADORES: the five supported operator strings.
OPERADORES == {"<", "<=", "==", ">=", ">"}

\* func_op(a, b) for an operator of OPERADORES.
Aplicar(op, a, b) ==
    CASE op = "<" -> a < b
      [] op = "<=" -> a <= b
      [] op = "==" -> a = b
      [] op = ">=" -> a >= b
      [] op = ">" -> a > b
      [] OTHER -> FALSE

\* The fallback pair of a dict contract.
Fallback(regla) ==
    Par(GetCantidad(regla.fallback_cantidad), GetVisible(regla.fallback_visible))

\* The pair a matching condition yields.
Resultado(condicion) ==
    Par(GetCantidad(condicion.resultado_cantidad),
        GetVisible(condicion.resultado_visible))

\* Whether the loop body takes its `return` on this condition: the cast
\* succeeds, the operator is supported and holds on the cast value.
Cumple(condicion, valor_nave) ==
    LET cast == Castear(condicion.valor, valor_nave)
    IN /\ cast.ok
       /\ condicion.operador.t = "str"
       /\ condicion.operador.s \in OPERADORES
       /\ Aplicar(condicion.operador.s, cast.v, condicion.valor.v)

\* The for loop over 'condiciones', in order.  An operador that is a JSON
\* array is unhashable: OPERADORES.get raises before the try.
RECURSIVE EvaluarCondiciones(_, _, _)
EvaluarCondiciones(valor_nave, conds, regla) ==
    IF conds = <<>> THEN Fallback(regla)
    ELSE LET condicion == Head(conds)
         IN IF condicion.operador.t = "list" THEN Raised
            ELSE IF Cumple(condicion, valor_nave) THEN Resultado(condicion)
            ELSE EvaluarCondiciones(valor_nave, Tail(conds), regla)

\* MotorReglasSITREP.evaluar_regla(nave, regla_json).
EvaluarRegla(nave, regla) ==
    IF EsFalsy(regla) THEN Par(0, TRUE)
    ELSE IF regla.k # "dict" THEN Raised          \* list.get: AttributeError
    ELSE IF regla.atributo.t # "str" THEN Raised  \* getattr(nave, None, None)
    ELSE LET valor_nave == GetAttr(nave, regla.atributo.s)
         IN IF valor_nave.t = "none" THEN Fallback(regla)
            ELSE IF regla.ct = "null" THEN Raised \* for ... in None
            ELSE EvaluarCondiciones(valor_nave, regla.condiciones, regla)

(***************************************************************************)
(* The inputs of the rule engine's specification.                          *)
(***************************************************************************)
MaxConds == 2       \* longest 'condiciones' list of the ordering family
MaxEslora == 6000   \* largest eslora (hundredths) tried on ReglaReferencia

SeqHasta(S, n) == UNION {[1..k -> S] : k \in 0..n}

NaveDe(e, a) ==
    [naviera |-> 1, eslora |-> e, arqueo_bruto |-> a, capacidad_personas |-> a,
     is_active |-> TRUE]

NavesEval ==
    {NaveDe(800, 10), NaveDe(1000, 11), NaveDe(1050, 10), NaveDe(5099, 50),
     NaveDe(7500, 50)}

FallbacksEval ==
    {<<Missing, Missing>>, <<JInt(7), JBool(TRUE)>>, <<JInt(7), Missing>>}

\* Well-typed conditions, for contracts of up to MaxConds conditions.
CondsOrden ==
    {Condicion(JStr(op), valor, res[1], res[2]) :
        op \in {"<=", ">", "==", "!="},
        valor \in {JInt(10 * Escala), JInt(50 * Escala), JFloat(1050)},
        res \in {<<JInt(2), JBool(TRUE)>>, <<JInt(4), JBool(FALSE)>>}}

ReglasOrden ==
    {ReglaDict(JStr(a), "list", conds, JInt(7), JBool(TRUE)) :
        a \in {"eslora", "arqueo_bruto"}, conds \in SeqHasta(CondsOrden, MaxConds)}

\* Conditions with every operator and every kind of threshold, keys absent
\* or ill-typed included.
CondsTodas ==
    {Condicion(op, valor, res[1], res[2]) :
        op \in {JStr("<"), JStr("<="), JStr("=="), JStr(">="), JStr(">"),
                JStr("!="), Missing, JList},
        valor \in {JInt(10 * Escala), JInt(50 * Escala), JFloat(1050),
                   JBool(TRUE), Null, Missing, JList},
        res \in {<<JInt(2), JBool(TRUE)>>, <<Missing, Missing>>}}

ReglasMalformadas ==
    {ReglaDict(a, ct[1], ct[2], fb[1], fb[2]) :
        a \in {Missing, Null, JInt(5), JStr("manga"), JStr("eslora"),
               JStr("capacidad_personas")},
        ct \in {<<"missing", <<>> >>, <<"null", <<>> >>}
               \cup {<<"list", conds>> : conds \in SeqHasta(CondsTodas, 1)},
        fb \in FallbacksEval}

ReglasEval ==
    {ReglaNull, ReglaLista(0), ReglaLista(1), ReglaReferencia}
        \cup ReglasOrden \cup ReglasMalformadas

evars == <<ev_nave, ev_regla, ev_res, ev_pc>>

(***************************************************************************)
(* The matrix synchronizer.  A worker serves one request at a time; the    *)
(* rows a worker has written inside transaction.atomic() are in run[p].tx  *)
(* until the block is left: other connections read the committed table     *)
(* (READ COMMITTED) and wait on a row another transaction has written.     *)
(***************************************************************************)
NumNaves == 2
NumRecursos == 2
NumProcs == 2

NaveIds == 1..NumNaves
RecursoIds == 1..NumRecursos
Procs == 1..NumProcs
Navieras == {1, 2}
EslorasSync == {800, 7500}

\* Raises on a vessel longer than 50 (its second operador is unhashable).
ReglaFragil ==
    ReglaDict(JStr("eslora"), "list",
              << Condicion(JStr("<="), JInt(50 * Escala), JInt(1), JBool(TRUE)),
                 Condicion(JList, JInt(50 * Escala), JInt(4), JBool(TRUE)) >>,
              JInt(0), JBool(FALSE))

ReglasSync == {ReglaNull, ReglaReferencia, ReglaFragil}

\* What a direct edit may write: (cantidad, es_visible).
ValoresHumanos == {<<99, FALSE>>}

NaveRow(nav, e, act) ==
    [naviera |-> nav, eslora |-> e, arqueo_bruto |-> 10,
     capacidad_personas |-> 10, is_active |-> act]

\* A row of MatrizNaveRecurso.
Fila(n, r, c, v, m) ==
    [nave |-> n, recurso |-> r, cantidad |-> c, es_visible |-> v,
     modificado_manualmente |-> m]

FilasDe(tabla, n) == {f \in tabla : f.nave = n}
Con(tabla, n, r) == {f \in tabla : f.nave = n /\ f.recurso = r}

\* The table once the rows tx are written over it.
Aplicar_tx(tabla, tx) ==
    {f \in tabla : Con(tx, f.nave, f.recurso) = {}} \cup tx

\* A worker with no request in progress.
RunLibre ==
    [pc |-> "libre", nave |-> 1, inst |-> NaveRow(1, 800, TRUE), lista |-> <<>>,
     idx |-> 0, calc |-> Par(0, FALSE),
     matriz_obj |-> Fila(1, 1, 0, FALSE, FALSE), tx |-> {}]

Ocioso(p) == run[p].pc \in {"libre", "hecho", "fallo"}
EnCurso(p) == ~Ocioso(p)

\* RecursosAplicables without the shared resources (naviera IS NULL).
RecursosSoloPrivados(nave, cat) ==
    SelectSeq([r \in RecursoIds |-> r],
              LAMBDA r : cat[r].naviera = nave.naviera)

\* recursos_aplicables: Recurso rows with naviera NULL or the vessel's, in
\* primary-key order.
RecursosAplicables(nave, cat) ==
    SelectSeq([r \in RecursoIds |-> r],
              LAMBDA r : cat[r].naviera = 0 \/ cat[r].naviera = nave.naviera)

\* Another transaction holds the row (nave n, recurso r): it wrote it and has
\* not committed.
Bloqueada(p, n, r) == \E q \in Procs \ {p} : Con(run[q].tx, n, r) # {}

\* The end of one iteration of the for loop.
Avanzar(rp) ==
    IF rp.idx + 1 > Len(rp.lista)
    THEN [rp EXCEPT !.idx = rp.idx + 1, !.pc = "commit"]
    ELSE [rp EXCEPT !.idx = rp.idx + 1, !.pc = "obtener"]

svars == <<naves, recursos, matriz, run>>
hvars == <<h_humano, h_limpio, h_solape>>
fvars == <<requerimientos, periodos, fichas>>

\* GuardarNave with the receiver calling the synchronizer whether or not
\* the vessel is active.
GuardarSiempre(p, n, nav, e, act) ==
    LET nueva == NaveRow(nav, e, act)
        lista == RecursosAplicables(nueva, recursos)
    IN /\ Ocioso(p)
       /\ naves' = [naves EXCEPT ![n] = nueva]
       /\ run' = [run EXCEPT ![p] =
              [RunLibre EXCEPT !.pc = IF Len(lista) = 0 THEN "commit"
                                      ELSE "obtener",
                               !.nave = n, !.inst = nueva,
                               !.lista = lista, !.idx = 1]]
       /\ h_limpio' = [h_limpio EXCEPT ![n] = IF nueva = naves[n] THEN @ ELSE 0]
       /\ h_solape' = \E q \in Procs \ {p} :
                          /\ EnCurso(q) /\ run[q].nave = n
                          /\ run[q].inst # nueva
       /\ UNCHANGED <<recursos, matriz, h_humano, evars, fvars>>

\* Nave.save() followed by the post_save receiver: an active vessel starts
\* sincronizar_matriz_nave(instance) on the worker that saved it.
GuardarNave(p, n, nav, e, act) ==
    LET nueva == NaveRow(nav, e, act)
        lista == RecursosAplicables(nueva, recursos)
    IN /\ Ocioso(p)
       /\ naves' = [naves EXCEPT ![n] = nueva]
       /\ run' = [run EXCEPT ![p] =
              IF act
              THEN [RunLibre EXCEPT !.pc = IF Len(lista) = 0 THEN "commit"
                                           ELSE "obtener",
                                    !.nave = n, !.inst = nueva,
                                    !.lista = lista, !.idx = 1]
              ELSE run[p]]
       /\ h_limpio' = [h_limpio EXCEPT ![n] = IF nueva = naves[n] THEN @ ELSE 0]
       /\ h_solape' = IF act
                       THEN \E q \in Procs \ {p} :
                                /\ EnCurso(q) /\ run[q].nave = n
                                /\ run[q].inst # nueva
                       ELSE h_solape
       /\ UNCHANGED <<recursos, matriz, h_humano, evars, fvars>>

\* Nave.delete(): the soft delete, is_active = False and save().
EliminarNave(p, n) ==
    GuardarNave(p, n, naves[n].naviera, naves[n].eslora, FALSE)

\* Obtener with the INSERT of get_or_create committed at once, as if the
\* loop were not inside transaction.atomic().
ObtenerAutocommit(p) ==
    LET rp == run[p]
        r == rp.lista[rp.idx]
        calc == EvaluarRegla(rp.inst, recursos[r].regla_aplicacion)
        hay == Con(matriz, rp.nave, r)
    IN /\ rp.pc = "obtener"
       /\ IF calc.raised
          THEN /\ run' = [run EXCEPT ![p] = [RunLibre EXCEPT !.pc = "fallo"]]
               /\ matriz' = matriz
          ELSE IF hay # {}
          THEN /\ run' = [run EXCEPT ![p] =
                      [rp EXCEPT !.pc = "decidir", !.calc = calc,
                                 !.matriz_obj = CHOOSE f \in hay : TRUE]]
               /\ matriz' = matriz
          ELSE /\ run' = [run EXCEPT ![p] = Avanzar([rp EXCEPT !.calc = calc])]
               /\ matriz' = matriz \cup
                      {Fila(rp.nave, r, calc.cantidad, calc.visible, FALSE)}
       /\ UNCHANGED <<naves, recursos, hvars, evars, fvars>>

\* Lines 64-74 for the resource at idx: evaluar_regla, then get_or_create.
\* An exception of evaluar_regla leaves the atomic block: rollback.
Obtener(p) ==
    LET rp == run[p]
        r == rp.lista[rp.idx]
        calc == EvaluarRegla(rp.inst, recursos[r].regla_aplicacion)
        hay == Con(matriz \cup rp.tx, rp.nave, r)
    IN /\ rp.pc = "obtener"
       /\ IF calc.raised
          THEN run' = [run EXCEPT ![p] = [RunLibre EXCEPT !.pc = "fallo"]]
          ELSE IF hay # {}
          THEN run' = [run EXCEPT ![p] =
                   [rp EXCEPT !.pc = "decidir", !.calc = calc,
                              !.matriz_obj = CHOOSE f \in hay : TRUE]]
          ELSE /\ ~Bloqueada(p, rp.nave, r)
               /\ run' = [run EXCEPT ![p] =
                      Avanzar([rp EXCEPT !.calc = calc, !.tx = @ \cup
                          {Fila(rp.nave, r, calc.cantidad, calc.visible, FALSE)}])]
       /\ UNCHANGED <<naves, recursos, matriz, hvars, evars, fvars>>

\* Actualizar without the test of modificado_manualmente.
ActualizarSinBandera(p) ==
    LET rp == run[p]
        obj == rp.matriz_obj
        ahora == Con(matriz, obj.nave, obj.recurso)
    IN /\ rp.pc = "decidir"
       /\ ~Bloqueada(p, obj.nave, obj.recurso)
       /\ run' = [run EXCEPT ![p] =
              Avanzar([rp EXCEPT !.tx = @ \cup
                  {[f EXCEPT !.cantidad = rp.calc.cantidad,
                             !.es_visible = rp.calc.visible] : f \in ahora}])]
       /\ UNCHANGED <<naves, recursos, matriz, hvars, evars, fvars>>

\* Actualizar adding the computed quantity to the stored one.
ActualizarAcumula(p) ==
    LET rp == run[p]
        obj == rp.matriz_obj
        ahora == Con(matriz, obj.nave, obj.recurso)
    IN /\ rp.pc = "decidir"
       /\ IF ~obj.modificado_manualmente
          THEN /\ ~Bloqueada(p, obj.nave, obj.recurso)
               /\ run' = [run EXCEPT ![p] =
                      Avanzar([rp EXCEPT !.tx = @ \cup
                          {[f EXCEPT !.cantidad = IF @ < 8 THEN @ + rp.calc.cantidad
                                                  ELSE @,
                                     !.es_visible = rp.calc.visible] :
                               f \in ahora}])]
          ELSE run' = [run EXCEPT ![p] = Avanzar(rp)]
       /\ UNCHANGED <<naves, recursos, matriz, hvars, evars, fvars>>

\* Actualizar with the UPDATE committed at once, as if the loop were not
\* inside transaction.atomic().
ActualizarAutocommit(p) ==
    LET rp == run[p]
        obj == rp.matriz_obj
        ahora == Con(matriz, obj.nave, obj.recurso)
    IN /\ rp.pc = "decidir"
       /\ run' = [run EXCEPT ![p] = Avanzar(rp)]
       /\ matriz' = IF ~obj.modificado_manualmente
                    THEN Aplicar_tx(matriz,
                             {[f EXCEPT !.cantidad = rp.calc.cantidad,
                                        !.es_visible = rp.calc.visible] :
                                  f \in ahora})
                    ELSE matriz
       /\ UNCHANGED <<naves, recursos, hvars, evars, fvars>>

\* Lines 76-79 for a row that existed: the flag tested is the one read by
\* get_or_create; save(update_fields=['cantidad', 'es_visible']) is an UPDATE
\* of those two columns of the row as it is now.
Actualizar(p) ==
    LET rp == run[p]
        obj == rp.matriz_obj
        ahora == Con(matriz, obj.nave, obj.recurso)
    IN /\ rp.pc = "decidir"
       /\ IF ~obj.modificado_manualmente
          THEN /\ ~Bloqueada(p, obj.nave, obj.recurso)
               /\ run' = [run EXCEPT ![p] =
                      Avanzar([rp EXCEPT !.tx = @ \cup
                          {[f EXCEPT !.cantidad = rp.calc.cantidad,
                                     !.es_visible = rp.calc.visible] :
                               f \in ahora}])]
          ELSE run' = [run EXCEPT ![p] = Avanzar(rp)]
       /\ UNCHANGED <<naves, recursos, matriz, hvars, evars, fvars>>

\* Leaving `with transaction.atomic()` normally: COMMIT.
Commit(p) ==
    LET rp == run[p]
        n == rp.nave
        nueva == Aplicar_tx(matriz, rp.tx)
    IN /\ rp.pc = "commit"
       /\ matriz' = nueva
       /\ run' = [run EXCEPT ![p] = [RunLibre EXCEPT !.pc = "hecho"]]
       /\ h_limpio' = [h_limpio EXCEPT ![n] = IF @ = 0 THEN 1 ELSE 2]
       /\ UNCHANGED <<naves, recursos, h_humano, h_solape, evars, fvars>>

\* The run is interrupted inside the atomic block (the connection drops, a
\* write raises): the transaction is rolled back.
Abortar(p) ==
    LET rp == run[p]
    IN /\ rp.pc \in {"obtener", "decidir", "commit"}
       /\ run' = [run EXCEPT ![p] = [RunLibre EXCEPT !.pc = "fallo"]]
       /\ UNCHANGED <<naves, recursos, matriz, hvars, evars, fvars>>

\* A direct edit of a row (the admin change form of MatrizNaveRecurso): one
\* UPDATE that sets the quantity, the visibility and the audit flag.
EditarMatriz(p, n, r, c, v) ==
    /\ Ocioso(p)
    /\ Con(matriz, n, r) # {}
    /\ ~Bloqueada(p, n, r)
    /\ matriz' = Aplicar_tx(matriz, {Fila(n, r, c, v, TRUE)})
    /\ h_humano' = Aplicar_tx(h_humano, {Fila(n, r, c, v, TRUE)})
    /\ h_limpio' = [h_limpio EXCEPT ![n] = 0]
    /\ UNCHANGED <<naves, recursos, run, h_solape, evars, fvars>>

\* An administrator edits the contract of a catalog entry (the admin change
\* form of Recurso).
EditarRecurso(p, r, regla) ==
    /\ Ocioso(p)
    /\ recursos' = [recursos EXCEPT ![r].regla_aplicacion = regla]
    /\ recursos' # recursos
    /\ h_limpio' = [n \in NaveIds |-> 0]
    /\ UNCHANGED <<naves, matriz, run, h_humano, h_solape, evars, fvars>>

(***************************************************************************)
(* Inspection periods and inspection records.  Neither model defines       *)
(* save(), clean() or a validator, and both are registered with the admin  *)
(* site as they are: a row is stored with the field values it is given.    *)
(***************************************************************************)
NumPeriodos == 1

PeriodoIds == 1..NumPeriodos
Requisitos == {"A", "B"}
ESTADOS == {"abierto", "cerrado", "vencido"}
EstadosRequisito == {"ok", "falla"}

SinPeriodo == [nave |-> 0, estado |-> "ninguno"]
Periodo(n, estado) == [nave |-> n, estado |-> estado]

\* payload_checklist: a JSON object from names to a recorded state.
Payloads == UNION {[K -> EstadosRequisito] : K \in SUBSET Requisitos}

Ficha(per, r, operativo, payload) ==
    [periodo |-> per, recurso |-> r, estado_operativo |-> operativo,
     payload_checklist |-> payload]

FichasDe(per, r) == {f \in fichas : f.periodo = per /\ f.recurso = r}

\* A PeriodoRevision row is added; estado is any of ESTADOS.
CrearPeriodo(per, n, estado) ==
    /\ periodos[per] = SinPeriodo
    /\ periodos' = [periodos EXCEPT ![per] = Periodo(n, estado)]
    /\ UNCHANGED <<requerimientos, fichas, evars, svars, hvars>>

\* The estado of a PeriodoRevision row is changed.
EditarPeriodo(per, estado) ==
    /\ periodos[per] # SinPeriodo
    /\ periodos[per].estado # estado
    /\ periodos' = [periodos EXCEPT ![per].estado = estado]
    /\ UNCHANGED <<requerimientos, fichas, evars, svars, hvars>>

\* A FichaRegistro row is added for an existing period: unique_together
\* rejects a second row of the same (periodo, recurso); the flag and the
\* payload are stored as given.
CrearFicha(per, r, operativo, payload) ==
    /\ periodos[per] # SinPeriodo
    /\ FichasDe(per, r) = {}
    /\ fichas' = fichas \cup {Ficha(per, r, operativo, payload)}
    /\ UNCHANGED <<requerimientos, periodos, evars, svars, hvars>>

\* The flag and the payload of a FichaRegistro row are changed.
EditarFicha(per, r, operativo, payload) ==
    /\ FichasDe(per, r) # {}
    /\ fichas' = (fichas \ FichasDe(per, r))
                     \cup {Ficha(per, r, operativo, payload)}
    /\ fichas' # fichas
    /\ UNCHANGED <<requerimientos, periodos, evars, svars, hvars>>

\* The 'requerimientos' list of a catalog entry is changed.
EditarRequerimientos(r, reqs) ==
    /\ requerimientos[r] # reqs
    /\ requerimientos' = [requerimientos EXCEPT ![r] = reqs]
    /\ UNCHANGED <<periodos, fichas, evars, svars, hvars>>

vars == <<evars, svars, hvars, fvars>>

\* The inspection tables while the engine or the synchronizer is exercised.
FichaQuieto ==
    /\ requerimientos = [r \in RecursoIds |-> {}]
    /\ periodos = [per \in PeriodoIds |-> SinPeriodo]
    /\ fichas = {}

\* The synchronizer's variables while the rule engine alone is exercised,
\* and the rule engine's while the synchronizer is.
SyncQuieto ==
    /\ naves = [n \in NaveIds |-> NaveRow(1, 800, FALSE)]
    /\ recursos = [r \in RecursoIds |-> [naviera |-> 0,
                                         regla_aplicacion |-> ReglaNull]]
    /\ matriz = {}
    /\ run = [p \in Procs |-> RunLibre]
    /\ h_humano = {}
    /\ h_limpio = [n \in NaveIds |-> 0]
    /\ h_solape = FALSE

EvalQuieto ==
    /\ ev_pc = "retorno"
    /\ ev_res = Par(0, TRUE)
    /\ ev_nave = NaveDe(800, 10)
    /\ ev_regla = ReglaNull

InitEval ==
    /\ ev_pc = "llamar"
    /\ ev_res = Par(0, FALSE)
    /\ \/ ev_nave \in NavesEval /\ ev_regla \in ReglasEval
       \/ /\ ev_regla = ReglaReferencia
          /\ ev_nave \in {NaveDe(e, 10) : e \in 0..MaxEslora}
    /\ SyncQuieto
    /\ FichaQuieto

\* A call of MotorReglasSITREP.evaluar_regla(ev_nave, ev_regla).
Evaluar ==
    /\ ev_pc = "llamar"
    /\ ev_res' = EvaluarRegla(ev_nave, ev_regla)
    /\ ev_pc' = "retorno"
    /\ UNCHANGED <<ev_nave, ev_regla, svars, hvars, fvars>>

NextEval == Evaluar

SpecEval == InitEval /\ [][NextEval]_vars

(***************************************************************************)
(* One worker: requests are served one after the other.                    *)
(***************************************************************************)
\* The catalogs tried: resource 1 is shared (naviera NULL), the others are
\* private to tenant 1; each with any contract of ReglasSync.
Catalogos ==
    {cat \in [RecursoIds -> [naviera : {0, 1}, regla_aplicacion : ReglasSync]] :
        \A r \in RecursoIds : cat[r].naviera = IF r = 1 THEN 0 ELSE 1}

\* The saves tried: vessel 1 with any tenant, length and active flag; the
\* other vessels only as an active vessel of tenant 2 of length 8.
Guardados(n) ==
    IF n = 1
    THEN {NaveRow(nav, e, act) : nav \in Navieras, e \in EslorasSync,
                                 act \in BOOLEAN}
    ELSE {NaveRow(2, 800, TRUE)}

InitSeq ==
    /\ EvalQuieto
    /\ naves = [n \in NaveIds |-> NaveRow(IF n = 1 THEN 1 ELSE 2, 800, FALSE)]
    /\ recursos \in Catalogos
    /\ matriz = {}
    /\ run = [p \in Procs |-> RunLibre]
    /\ h_humano = {}
    /\ h_limpio = [n \in NaveIds |-> 0]
    /\ h_solape = FALSE
    /\ FichaQuieto

NextSeq ==
    \E p \in {1} :
        \/ \E n \in NaveIds : \E nueva \in Guardados(n) :
               GuardarNave(p, n, nueva.naviera, nueva.eslora, nueva.is_active)
        \/ \E n \in NaveIds : EliminarNave(p, n)
        \/ Obtener(p)
        \/ Actualizar(p)
        \/ Commit(p)
        \/ Abortar(p)
        \/ \E n \in NaveIds, r \in RecursoIds, cv \in ValoresHumanos :
               EditarMatriz(p, n, r, cv[1], cv[2])
        \/ \E r \in RecursoIds, regla \in ReglasSync : EditarRecurso(p, r, regla)

SpecSeq == InitSeq /\ [][NextSeq]_vars

(***************************************************************************)
(* Several workers: saves of vessel 1 (tenant 1) and direct edits of its   *)
(* rows are served at the same time.                                       *)
(***************************************************************************)
InitConc ==
    /\ EvalQuieto
    /\ naves = [n \in NaveIds |-> NaveRow(IF n = 1 THEN 1 ELSE 2, 800, FALSE)]
    /\ recursos \in {cat \in Catalogos :
           \A r \in RecursoIds : cat[r].regla_aplicacion # ReglaNull}
    /\ matriz = {}
    /\ run = [p \in Procs |-> RunLibre]
    /\ h_humano = {}
    /\ h_limpio = [n \in NaveIds |-> 0]
    /\ h_solape = FALSE
    /\ FichaQuieto

NextConc ==
    \E p \in Procs :
        \/ \E e \in EslorasSync : GuardarNave(p, 1, 1, e, TRUE)
        \/ Obtener(p)
        \/ Actualizar(p)
        \/ Commit(p)
        \/ Abortar(p)
        \/ \E r \in RecursoIds, cv \in ValoresHumanos :
               EditarMatriz(p, 1, r, cv[1], cv[2])

SpecConc == InitConc /\ [][NextConc]_vars

(***************************************************************************)
(* Several workers, and the vessel changes tenant: saves of vessel 1 with  *)
(* either tenant and either length are served at the same time as direct   *)
(* edits of its rows; resource 2 is private to tenant 1.                   *)
(***************************************************************************)
InitMixto ==
    /\ EvalQuieto
    /\ naves = [n \in NaveIds |-> NaveRow(IF n = 1 THEN 1 ELSE 2, 800, FALSE)]
    /\ recursos \in {cat \in Catalogos :
           \A r \in RecursoIds : cat[r].regla_aplicacion = ReglaReferencia}
    /\ matriz = {}
    /\ run = [p \in Procs |-> RunLibre]
    /\ h_humano = {}
    /\ h_limpio = [n \in NaveIds |-> 0]
    /\ h_solape = FALSE
    /\ FichaQuieto

NextMixto ==
    \E p \in Procs :
        \/ \E nav \in Navieras, e \in EslorasSync : GuardarNave(p, 1, nav, e, TRUE)
        \/ Obtener(p)
        \/ Actualizar(p)
        \/ Commit(p)
        \/ Abortar(p)
        \/ \E r \in RecursoIds, cv \in ValoresHumanos :
               EditarMatriz(p, 1, r, cv[1], cv[2])

SpecMixto == InitMixto /\ [][NextMixto]_vars

(***************************************************************************)
(* Inspection records: periods are opened and edited, records are entered  *)
(* and edited, requirement lists are edited.                               *)
(***************************************************************************)
InitFicha ==
    /\ EvalQuieto
    /\ SyncQuieto
    /\ requerimientos \in [RecursoIds -> SUBSET Requisitos]
    /\ periodos = [per \in PeriodoIds |-> SinPeriodo]
    /\ fichas = {}

NextFicha ==
    \/ \E per \in PeriodoIds, n \in NaveIds, estado \in ESTADOS :
           CrearPeriodo(per, n, estado)
    \/ \E per \in PeriodoIds, estado \in ESTADOS : EditarPeriodo(per, estado)
    \/ \E per \in PeriodoIds, r \in RecursoIds, operativo \in BOOLEAN,
          payload \in Payloads : CrearFicha(per, r, operativo, payload)
    \/ \E per \in PeriodoIds, r \in RecursoIds, operativo \in BOOLEAN,
          payload \in Payloads : EditarFicha(per, r, operativo, payload)
    \/ \E r \in RecursoIds, reqs \in SUBSET Requisitos :
           EditarRequerimientos(r, reqs)

SpecFicha == InitFicha /\ [][NextFicha]_vars

(***************************************************************************)
(* Claims about the rule engine (SpecEval).                                *)
(***************************************************************************)
Min(S) == CHOOSE x \in S : \A y \in S : x <= y

Llamada == ev_pc = "retorno"

\* The vessel's value of the attribute the contract names.
ValorNave == GetAttr(ev_nave, ev_regla.atributo.s)

\* The contract is a dict that names an attribute the vessel has.
AtributoPresente ==
    /\ ev_regla.k = "dict"
    /\ ev_regla.atributo.t = "str"
    /\ ValorNave.t # "none"

\* The condition's operator holds between the vessel's value itself and the
\* condition's value.
CumpleReal(condicion, valor_nave) ==
    /\ condicion.operador.t = "str"
    /\ condicion.operador.s \in OPERADORES
    /\ Aplicar(condicion.operador.s, valor_nave.v, condicion.valor.v)

\* Every threshold of the contract is a number, as the contract schema has it.
UmbralesNumericos ==
    \A i \in 1..Len(ev_regla.condiciones) :
        ev_regla.condiciones[i].valor.t \in {"int", "float"}

\* C6: for every contract (here: with numeric thresholds) and every non-null
\* attribute value, the result is the (resultado_cantidad, resultado_visible)
\* pair of the condition of smallest index whose operator holds between the
\* vessel value and the condition's value.
C6_PrimeraQueCumple ==
    (Llamada /\ AtributoPresente /\ UmbralesNumericos) =>
        LET conds == ev_regla.condiciones
            S == {i \in 1..Len(conds) : CumpleReal(conds[i], ValorNave)}
        IN S # {} => ev_res = Resultado(conds[Min(S)])

\* The contract without the conditions whose operator is unsupported or
\* whose threshold the vessel value cannot be coerced to.
SinInertes(regla) ==
    [regla EXCEPT !.condiciones =
        SelectSeq(@, LAMBDA c :
            /\ c.operador.t = "str" /\ c.operador.s \in OPERADORES
            /\ Castear(c.valor, NoneVal).ok)]

\* C7: evaluar_regla never raises, whatever the contract (fields missing or
\* ill-typed, thresholds that cannot be coerced, unsupported operators); an
\* unsupported operator or a failed coercion only makes its condition
\* non-matching.
C7_NuncaLanza ==
    Llamada =>
        /\ ~ev_res.raised
        /\ ev_res = EvaluarRegla(ev_nave, SinInertes(ev_regla))

\* C8: (0, true) is returned exactly when the contract is null; every
\* contract that is present, fields missing included, yields
\* (fallback_cantidad or 0, fallback_visible or false) whenever the named
\* attribute is absent or null on the vessel or no condition matches.
C8_Fallback ==
    Llamada =>
        /\ ev_regla.k = "null" => ev_res = Par(0, TRUE)
        /\ (/\ ev_regla.k = "dict"
            /\ \/ ~AtributoPresente
               \/ \A i \in 1..Len(ev_regla.condiciones) :
                      ~Cumple(ev_regla.condiciones[i], ValorNave))
           => ev_res = Fallback(ev_regla)

\* C9: on the reference contract the band is decided by the vessel's eslora
\* itself: (0, false) up to 10, (2, true) above 10 and up to 50, (4, true)
\* above 50, for every eslora with two fractional digits.
C9_Bandas ==
    (Llamada /\ ev_regla = ReglaReferencia) =>
        ev_res = IF ev_nave.eslora <= 10 * Escala THEN Par(0, FALSE)
                 ELSE IF ev_nave.eslora <= 50 * Escala THEN Par(2, TRUE)
                 ELSE Par(4, TRUE)

(***************************************************************************)
(* Claims about the synchronizer.                                          *)
(***************************************************************************)
\* The step is a direct edit of the row (nave n, recurso r).
EsEdicion(n, r) ==
    \E p \in Procs, cv \in ValoresHumanos : EditarMatriz(p, n, r, cv[1], cv[2])

\* C1 (SpecSeq): whatever the vessel's attributes and the resource's
\* contract, no step of a synchronization run changes a row whose
\* modificado_manualmente is true: only a direct edit of that row does.
C1_ManualIntacta ==
    [][\A f \in matriz :
          f.modificado_manualmente => (f \in matriz' \/ EsEdicion(f.nave, f.recurso))
      ]_vars

\* Two runs of the vessel have completed since the row was edited by hand,
\* its resource being applicable to the vessel.
C1_Testigo ==
    \E f \in matriz :
        /\ f.modificado_manualmente
        /\ h_limpio[f.nave] = 2
        /\ recursos[f.recurso].naviera \in {0, naves[f.nave].naviera}

\* C2 (SpecConc): a row whose modificado_manualmente is true holds the
\* quantity and visibility of the last direct edit, also when that edit
\* fell between a run's read of the row and its write.
C2_ManualEsHumano ==
    \A f \in matriz : f.modificado_manualmente => f \in h_humano

\* C3 (SpecSeq): a run that completes when nothing (vessel attributes,
\* contracts, rows) changed since the vessel's previous completed run leaves
\* the table as it was.
C3_Idempotente ==
    [][\A p \in Procs :
          (Commit(p) /\ h_limpio[run[p].nave] >= 1) => matriz' = matriz
      ]_vars

\* A second run in a row has completed on a vessel that has rows.
C3_Testigo ==
    \E n \in NaveIds : h_limpio[n] = 2 /\ FilasDe(matriz, n) # {}

\* The run of worker p has gone through its whole list and every resource
\* of the list has its row in the table.
RunCompleto(p, tabla) ==
    /\ run[p].idx > Len(run[p].lista)
    /\ \A i \in 1..Len(run[p].lista) :
           Con(tabla, run[p].nave, run[p].lista[i]) # {}

\* C4 (SpecConc): the committed table, which is what any other connection
\* reads, changes only by a direct edit or by the commit of a run that went
\* through all its resources, all of whose rows it then holds; a run that
\* fails or is interrupted leaves it as it was.
C4_Atomico ==
    [][matriz' # matriz =>
          \/ \E n \in NaveIds, r \in RecursoIds : EsEdicion(n, r)
          \/ \E p \in Procs :
                 /\ Commit(p)
                 /\ RunCompleto(p, matriz')
                 /\ \A n \in NaveIds \ {run[p].nave} :
                        FilasDe(matriz', n) = FilasDe(matriz, n)
      ]_vars

\* A run has written a row and its next resource's contract makes
\* evaluar_regla raise.
C4_Testigo ==
    \E p \in Procs :
        /\ run[p].pc = "obtener"
        /\ run[p].tx # {}
        /\ EvaluarRegla(run[p].inst,
               recursos[run[p].lista[run[p].idx]].regla_aplicacion).raised

\* C5 (SpecConc): a run reads only committed rows (or its own), and when it
\* commits every row of its vessel and its resources that is not manually
\* overridden holds the values computed from that run's attribute snapshot:
\* overlapping runs leave the table as the run committing last computes it.
C5_Serializadas ==
    [][\A p \in Procs :
          /\ (Obtener(p) /\ run'[p].pc = "decidir")
                 => run'[p].matriz_obj \in matriz \cup run[p].tx
          /\ Commit(p) =>
                 \A i \in 1..Len(run[p].lista) :
                     \A f \in Con(matriz', run[p].nave, run[p].lista[i]) :
                         ~f.modificado_manualmente =>
                             Par(f.cantidad, f.es_visible) =
                                 EvaluarRegla(run[p].inst,
                                     recursos[f.recurso].regla_aplicacion)
      ]_vars

\* Two runs of the vessel that overlapped, with different attribute values,
\* have both completed, and the vessel has automatic rows.
C5_Testigo ==
    /\ h_solape
    /\ \A p \in Procs : run[p].pc = "hecho"
    /\ \E f \in matriz : ~f.modificado_manualmente

(***************************************************************************)
(* Claims about the inspection records.                                    *)
(***************************************************************************)
\* Every requirement the resource declares is in the payload with state ok.
TodosOperativos(r, payload) ==
    \A q \in requerimientos[r] :
        q \in DOMAIN payload /\ payload[q] = "ok"

\* C10: a step that stores an inspection record (a new row, or new values
\* of a row) for a resource that declares one or more requirements never
\* stores estado_operativo = TRUE when some declared requirement is marked
\* 'falla' in payload_checklist or is absent from it.
C10_OperativoSoloSiTodos ==
    [][\A f \in fichas' \ fichas :
          (requerimientos[f.recurso] # {} /\ f.estado_operativo)
              => TodosOperativos(f.recurso, f.payload_checklist)]_vars

\* C11: a step that creates an inspection record creates it against a
\* period whose estado is 'abierto'; against a period that is 'cerrado' or
\* 'vencido' no record is created.
C11_SoloPeriodoAbierto ==
    [][\A f \in fichas' \ fichas :
          FichasDe(f.periodo, f.recurso) = {}
              => periodos[f.periodo].estado = "abierto"]_vars

(***************************************************************************)
(* Claims about the rows a run leaves.                                     *)
(***************************************************************************)
\* The resources whose tenant is NULL or the tenant of the vessel.
Aplicables(nave) ==
    {r \in RecursoIds : recursos[r].naviera \in {0, nave.naviera}}

\* At most one row per (nave, recurso).
FilaUnica(tabla) ==
    \A n \in NaveIds, r \in RecursoIds : Cardinality(Con(tabla, n, r)) <= 1

\* C12 (SpecMixto): when a run completes, every resource whose tenant is
\* NULL or the tenant of the vessel the run was given has exactly one row
\* for the vessel; a row the run created has modificado_manualmente false;
\* and every such row with the flag false holds the pair evaluar_regla
\* returns for the attributes the run was given and the resource's
\* contract.  Every step, of overlapping runs included, leaves at most one
\* row per (nave, recurso) in the table, which starts empty.
C12_FilasTrasRun ==
    [][/\ FilaUnica(matriz')
       /\ \A p \in Procs : Commit(p) =>
            \A r \in Aplicables(run[p].inst) :
                /\ Cardinality(Con(matriz', run[p].nave, r)) = 1
                /\ \A f \in Con(matriz', run[p].nave, r) :
                       /\ Con(matriz, f.nave, r) = {}
                              => ~f.modificado_manualmente
                       /\ ~f.modificado_manualmente =>
                              Par(f.cantidad, f.es_visible) =
                                  EvaluarRegla(run[p].inst,
                                      recursos[r].regla_aplicacion)
      ]_vars

\* Two overlapping runs of the vessel have completed, the vessel is of
\* tenant 2 and has a row of the resource private to tenant 1, next to its
\* row of the shared resource.
C12_Testigo ==
    /\ h_solape
    /\ \A p \in Procs : run[p].pc = "hecho"
    /\ naves[1].naviera = 2
    /\ \A r \in RecursoIds : Con(matriz, 1, r) # {}

\* C13: frame of a run.  Its steps before the commit leave the table as it
\* is; its commit deletes no row and changes no row's
\* modificado_manualmente, leaves as they are the rows of other vessels,
\* the rows of resources not applicable to the vessel and the rows whose
\* modificado_manualmente is true, and adds or rewrites only rows of its
\* vessel and of applicable resources.
C13_Marco ==
    [][\A p \in Procs :
          /\ (Obtener(p) \/ Actualizar(p) \/ Abortar(p)) => matriz' = matriz
          /\ Commit(p) =>
                 /\ \A f \in matriz : \E g \in matriz' :
                        /\ g.nave = f.nave /\ g.recurso = f.recurso
                        /\ g.modificado_manualmente = f.modificado_manualmente
                 /\ \A f \in matriz :
                        (\/ f.nave # run[p].nave
                         \/ f.recurso \notin Aplicables(run[p].inst)
                         \/ f.modificado_manualmente) => f \in matriz'
                 /\ \A g \in matriz' \ matriz :
                        /\ g.nave = run[p].nave
                        /\ g.recurso \in Aplicables(run[p].inst)
      ]_vars

(***************************************************************************)
(* Claims about the post_save receiver.                                    *)
(***************************************************************************)
\* The run sincronizar_matriz_nave starts for vessel n saved as nueva.
RunDe(n, nueva) ==
    LET lista == RecursosAplicables(nueva, recursos)
    IN [RunLibre EXCEPT !.pc = IF Len(lista) = 0 THEN "commit" ELSE "obtener",
                        !.nave = n, !.inst = nueva, !.lista = lista, !.idx = 1]

\* C14 (SpecSeq): a save that leaves the vessel active starts one run for
\* that vessel, with the values saved, on the worker serving the save, and
\* that worker serves nothing else until the run has ended; a run starts
\* in no other way; a save that leaves the vessel inactive, the soft delete
\* of Nave.delete included (is_active false, the row kept), starts no run
\* and leaves every row of the vessel as it is.
C14_RunPorGuardado ==
    [][\A p \in Procs :
          /\ \A n \in NaveIds : \A nueva \in Guardados(n) :
                 GuardarNave(p, n, nueva.naviera, nueva.eslora, nueva.is_active)
                     => IF nueva.is_active
                        THEN run'[p] = RunDe(n, nueva) /\ matriz' = matriz
                        ELSE run' = run /\ matriz' = matriz
          /\ \A n \in NaveIds :
                 EliminarNave(p, n)
                     => /\ naves' = [naves EXCEPT ![n].is_active = FALSE]
                        /\ run' = run /\ matriz' = matriz
          /\ (Ocioso(p) /\ run'[p] # run[p])
                 => \E n \in NaveIds :
                        /\ naves'[n].is_active
                        /\ run'[p] = RunDe(n, naves'[n])
          /\ (EnCurso(p) /\ run'[p] # run[p])
                 => /\ naves' = naves
                    /\ \/ run'[p].pc \in {"hecho", "fallo"}
                       \/ /\ run'[p].nave = run[p].nave
                          /\ run'[p].inst = run[p].inst
                          /\ run'[p].lista = run[p].lista
      ]_vars

\* A vessel that has rows from a completed run was then saved inactive.
C14_Testigo ==
    \E n \in NaveIds :
        /\ ~naves[n].is_active
        /\ FilasDe(matriz, n) # {}
        /\ run[1].pc = "hecho"

=============================================================================
